---- MODULE Spec2Model ----
(***************************************************************************)
(* Iris: the ingestion command queue of pallet data-assets and the         *)
(* completion reports of pallet ipfs.                                      *)
(*                                                                         *)
(* The ledger state is the storage of the two pallets (IngestionCommands,  *)
(* IngestionStaging, Metadata, NextAssetId) and the asset classes of the   *)
(* external registrar pallet_assets.  Every dispatchable is one action;    *)
(* its body is a pure operator over a record of the storage items, written *)
(* statement by statement in the order of the source.  The dispatchables   *)
(* carry no #[transactional] attribute: a write made before an early       *)
(* return stays written.  A panic aborts the extrinsic as a whole and      *)
(* leaves the storage as it was.                                           *)
(*                                                                         *)
(* The node is one validator's offchain worker (pallet ipfs): the storage  *)
(* of pallet ipfs, the node's transaction pool and the position of the     *)
(* running offchain_worker invocation, which takes one step per call to    *)
(* the storage daemon.  The capsule fragments are the input and the result *)
(* of decrypt_capsule_fragments.                                           *)
(***************************************************************************)
EXTENDS Integers, Sequences, FiniteSets, TLC

VARIABLES IngestionCommands, IngestionStaging, Metadata, NextAssetId,
          Assets, enqueued, last,
          SubstrateIpfsBridge, BootstrapNodes, Stats,
          block_number, is_validator, ocw, txpool,
          cfrags, decrypted, stagings

\* the storage of pallet ipfs
ipfsVars == <<SubstrateIpfsBridge, BootstrapNodes, Stats>>
\* the node: the block imported last, sp_io::offchain::is_validator, the
\* running offchain worker invocation and the transactions it has submitted
nodeVars == <<block_number, is_validator, ocw, txpool>>

vars == <<IngestionCommands, IngestionStaging, Metadata, NextAssetId,
          Assets, enqueued, last, ipfsVars, nodeVars, cfrags, decrypted, stagings>>

\* the calls of the pure functions and the count of the stagings: the
\* arguments and the result of decrypt_capsule_fragments and of decrypt, and
\* the number of add_ingestion_staging calls made for each owner, which the
\* specification SpecStaging counts
callVars == <<cfrags, decrypted, stagings>>

\* ------------------------------------------------------------------ bounds
\* create_request calls that reach the push, over all gateways
MaxEnqueued == 2
\* the bytes of a payload handed to encrypt
MaxPlaintext == 2
\* add_ingestion_staging calls counted, over all owners
MaxStagings == 2
\* the multiaddresses of one submit_ipfs_identity call
MaxMultiaddresses == 2
\* asset ids handed out by get_and_increment_asset_id
MaxAssetIds == 2

\* transactions the node's pool holds; a submission to a full pool fails
MaxPool == 3
\* encrypted fragments in one call of decrypt_capsule_fragments
MaxFragments == 2

\* --------------------------------------------------------- program values
\* GenesisConfig::default: base_asset_id
InitialAssetId == 2
\* T::AssetId converts to and from u32; the 32 bits are scaled down to 4 so
\* that the end of the counter's range is within the checker's integers
AssetIdModulus == 16

\* T::NodeConfigBlockDuration, which the runtime sets
NodeConfigBlockDuration == 2

None == "None"
Gateways == {"g1", "g2"}
Owners == {"o1", "o2"}
\* the dataset each owner asks to have ingested
CidOf(owner) == IF owner = "o1" THEN "Qm1" ELSE "Qm2"
Multiaddresses == {"/ip4/1.2.3.4/tcp/4001/p2p/Node1"}
Sizes == {10}
Balances == {1}
PublicKeys == {"k1", "k2"}
\* the account of the node's keystore (Signer::all_accounts), the public key
\* and the addresses its ipfs daemon reports, and the daemon's repo statistics
LocalAccount == "g1"
DaemonPubkey == "pk1"
DaemonAddresses == <<"/ip4/5.6.7.8/tcp/4001">>
DaemonPubkeys == {DaemonPubkey}
RepoStat == [StorageMax |-> 10, RepoSize |-> 3]

\* iris_primitives::IngestionCommand, compared structurally (PartialEq)
IngestionCommand(owner, cid, multiaddress, size, balance) ==
  [owner |-> owner, cid |-> cid, multiaddress |-> multiaddress,
   estimated_size_gb |-> size, balance |-> balance]

\* the commands the owners submit
Cmds ==
  {IngestionCommand(o, CidOf(o), m, s, b) :
     o \in Owners, m \in Multiaddresses, s \in Sizes, b \in Balances}

\* mutant of AssetMetadata: the two fields are filled the other way round
AssetMetadata_swapped(cid, public_key) == [cid |-> public_key, public_key |-> cid]

AssetMetadata(cid, public_key) == [cid |-> cid, public_key |-> public_key]

\* ---------------------------------------------------------- Vec helpers
\* mutant of contains: the signer has some queued command
contains_any(q, cmd) == Len(q) > 0

\* Vec::contains
contains(q, cmd) == \E i \in 1..Len(q) : q[i] = cmd

\* Iterator::position: the index of the first match, 0 for Option::None
\* (indices count from 1 here)
position(q, cmd) ==
  LET matches == {i \in 1..Len(q) : q[i] = cmd} IN
  IF matches = {}
  THEN 0
  ELSE CHOOSE i \in matches : \A j \in matches : i <= j

\* mutant of remove: the shortened vector is never written back
remove_not_written(q, idx) == q

\* mutant of remove: every entry equal to the one at idx goes
remove_every(q, idx) == SelectSeq(q, LAMBDA c : c # q[idx])

\* Vec::remove(idx)
remove(q, idx) == [i \in 1..(Len(q) - 1) |-> IF i < idx THEN q[i] ELSE q[i + 1]]

\* mutant of push: a command already queued is not queued again
push_unique(q, cmd) == IF \E i \in 1..Len(q) : q[i] = cmd THEN q ELSE Append(q, cmd)

\* Vec::push
push(q, cmd) == Append(q, cmd)

\* mutant of insert: the map holds the new entry alone
insert_alone(m, k, v) == [i \in {k} |-> v]

\* StorageMap::insert
insert(m, k, v) == [i \in DOMAIN m \cup {k} |-> IF i = k THEN v ELSE m[i]]

\* mutant of staging_remove: the staged key is left in place
staging_remove_kept(staging, owner) == staging

\* IngestionStaging::remove
staging_remove(staging, owner) == [staging EXCEPT ![owner] = None]

\* ------------------------------------------------------------ the ledger
Ledger ==
  [cmds |-> IngestionCommands, staging |-> IngestionStaging,
   meta |-> Metadata, next |-> NextAssetId, assets |-> Assets]

SetLedger(st) ==
  /\ IngestionCommands' = st.cmds
  /\ IngestionStaging' = st.staging
  /\ Metadata' = st.meta
  /\ NextAssetId' = st.next
  /\ Assets' = st.assets

Outcome(st, result, events) == [st |-> st, result |-> result, events |-> events]

\* a panic inside a dispatchable: the extrinsic is dropped, nothing is written
Panic(st) == Outcome(st, "Panic", <<>>)

\* mutant of add_ingestion_staging: an owner with a staged key keeps it
add_ingestion_staging_keep(st, owner, public_key) ==
  IF st.staging[owner] = None THEN [st EXCEPT !.staging[owner] = public_key] ELSE st

\* QueueManager::add_ingestion_staging
add_ingestion_staging(st, owner, public_key) ==
  [st EXCEPT !.staging[owner] = public_key]

\* mutant of ingestion_requests: the commands queued for any gateway
ingestion_requests_any_gateway(st, gateway) ==
  LET RECURSIVE Cat(_)
      Cat(S) == IF S = {} THEN <<>>
                ELSE LET g == CHOOSE g \in S : TRUE
                     IN st.cmds[g] \o Cat(S \ {g})
  IN Cat(DOMAIN st.cmds)

\* QueueManager::ingestion_requests
ingestion_requests(st, gateway) == st.cmds[gateway]

\* T::Lookup::lookup on an account id source
lookup(source) == source

\* get_and_increment_asset_id: the id handed out, the counter after it, and
\* whether primitive + 1u32 overflowed
get_and_increment_asset_id(next) ==
  [id |-> next, next |-> (next + 1) % AssetIdModulus,
   overflow |-> next + 1 >= AssetIdModulus]

\* pallet_assets::create: fails when the id is in use, or on the registrar's
\* own conditions (createOk); writes nothing when it fails
pallet_assets_create(assets, owner, id, admin, min_balance, createOk) ==
  IF id \in DOMAIN assets \/ ~createOk
  THEN [ok |-> FALSE, assets |-> assets]
  ELSE [ok |-> TRUE,
        assets |-> insert(assets, id,
                     [owner |-> owner, admin |-> admin, min_balance |-> min_balance])]

\* mutant of create_asset_class: the metadata is written and the staged key and
\* the command are removed before the registrar's answer is looked at
create_asset_class_writes_first(st, who, cmd, env) ==
  LET pubkey == st.staging[cmd.owner] IN
  IF pubkey = None
  THEN Outcome(st, "Ok", <<>>)
  ELSE
    LET gi == get_and_increment_asset_id(st.next)
        cmd_idx == position(st.cmds[who], cmd)
        st1 == [st EXCEPT !.next = gi.next,
                          !.meta = insert(@, gi.id, AssetMetadata(cmd.cid, pubkey)),
                          !.staging[cmd.owner] = None,
                          !.cmds[who] = IF cmd_idx = 0 THEN @ ELSE remove(@, cmd_idx)]
        created == pallet_assets_create(st1.assets, who, gi.id, cmd.owner,
                                        cmd.balance, env.createOk)
    IN
    IF ~created.ok
    THEN Outcome(st1, "CantCreateAssetClass", <<>>)
    ELSE IF cmd_idx = 0
    THEN Panic(st)
    ELSE Outcome([st1 EXCEPT !.assets = created.assets], "Ok", <<>>)

\* ResultsHandler::create_asset_class
create_asset_class(st, who, cmd, env) ==
  LET pubkey == st.staging[cmd.owner] IN
  IF pubkey = None
  THEN Outcome(st, "Ok", <<>>)
  ELSE
    LET gi == get_and_increment_asset_id(st.next) IN
    IF gi.overflow /\ env.overflowChecks
    THEN Panic(st)
    ELSE
      LET st1 == [st EXCEPT !.next = gi.next]
          created == pallet_assets_create(st1.assets, who, gi.id, cmd.owner,
                                          cmd.balance, env.createOk)
      IN
      IF ~created.ok
      THEN Outcome(st1, "CantCreateAssetClass", <<>>)
      ELSE
        LET st2 == [st1 EXCEPT !.assets = created.assets,
                               !.meta = insert(@, gi.id, AssetMetadata(cmd.cid, pubkey)),
                               !.staging = staging_remove(@, cmd.owner)]
            cmd_idx == position(st2.cmds[who], cmd)
        IN
        IF cmd_idx = 0
        THEN Panic(st)
        ELSE Outcome([st2 EXCEPT !.cmds[who] = remove(@, cmd_idx)], "Ok", <<>>)

\* mutant of submit_ingestion_completed: the ensure! on the queue is missing
submit_ingestion_completed_no_ensure(st, who, cmd, env) ==
  LET r == create_asset_class(st, who, cmd, env) IN
  IF r.result # "Ok"
  THEN r
  ELSE Outcome(r.st, "Ok", <<"IngestionComplete">>)

\* pallet ipfs: submit_ingestion_completed
submit_ingestion_completed(st, who, cmd, env) ==
  LET queued_commands == ingestion_requests(st, who) IN
  IF ~contains(queued_commands, cmd)
  THEN Outcome(st, "NotAuthorized", <<>>)
  ELSE
    LET r == create_asset_class(st, who, cmd, env) IN
    IF r.result # "Ok"
    THEN r
    ELSE Outcome(r.st, "Ok", <<"IngestionComplete">>)

\* pallet data-assets: create_request
create_request(st, who, gateway, cid, multiaddress, estimated_size_gb, balance, env) ==
  LET g == lookup(gateway)
      cmd == IngestionCommand(who, cid, multiaddress, estimated_size_gb, balance)
      st1 == [st EXCEPT !.cmds[g] = push(@, cmd)]
  IN
  IF ~env.transferOk
  THEN Outcome(st1, "VestedTransferError", <<>>)
  ELSE Outcome(st1, "Ok", <<"CreatedIngestionRequest">>)

\* pallet data-assets: bump_request, whose body is a TODO that returns Ok(())
bump_request(st, who, amount) == Outcome(st, "Ok", <<>>)

\* pallet data-assets: kill_request, whose body is a TODO that returns Ok(())
kill_request(st, who) == Outcome(st, "Ok", <<>>)

\* ----------------------------------------------------------- pallet ipfs
IpfsStore ==
  [bridge |-> SubstrateIpfsBridge, bootstrap |-> BootstrapNodes, stats |-> Stats]

SetIpfsStore(st) ==
  /\ SubstrateIpfsBridge' = st.bridge
  /\ BootstrapNodes' = st.bootstrap
  /\ Stats' = st.stats

\* mutant of submit_ipfs_identity: the ensure! on the existing association is
\* missing
submit_ipfs_identity_rebinds(st, who, public_key, multiaddresses) ==
  Outcome([st EXCEPT !.bootstrap[public_key] = multiaddresses,
                     !.bridge[public_key] = who],
          "Ok", <<"IdentitySubmitted">>)

\* pallet ipfs: submit_ipfs_identity
submit_ipfs_identity(st, who, public_key, multiaddresses) ==
  IF st.bridge[public_key] # None /\ who # st.bridge[public_key]
  THEN Outcome(st, "InvalidPublicKey", <<>>)
  ELSE Outcome([st EXCEPT !.bootstrap[public_key] = multiaddresses,
                          !.bridge[public_key] = who],
               "Ok", <<"IdentitySubmitted">>)

\* pallet ipfs: submit_config_complete
submit_config_complete(st, who, reported_storage_size) ==
  Outcome([st EXCEPT !.stats[who] = reported_storage_size],
          "Ok", <<"ConfigurationSyncSubmitted">>)

\* ---------------------------------------------------- the offchain worker
\* what the chain state of the block an invocation runs for holds of the
\* storage items the worker reads
View == [bridge |-> SubstrateIpfsBridge, cmds |-> IngestionCommands]
NoView == [bridge |-> [k \in DaemonPubkeys |-> None], cmds |-> [g \in Gateways |-> <<>>]]

\* one invocation of offchain_worker: where it stands (pc), the block and the
\* chain state it runs for, its locals (account, queued_commands, the index
\* idx of the command the loop is at), and what it has done so far: the
\* commands it went through with the result of each daemon call (attempts),
\* the transactions the pool accepted (sent) and the calls that failed (errors)
Invocation(pc, block, view) ==
  [pc |-> pc, block |-> block, view |-> view,
   account |-> None, queued_commands |-> <<>>, idx |-> 1,
   attempts |-> <<>>, sent |-> <<>>, errors |-> {}]

\* no invocation is running
Idle == Invocation("idle", 0, NoView)

Transaction(signer, call, arg) == [signer |-> signer, call |-> call, arg |-> arg]

\* Signer::all_accounts().send_signed_transaction for the one local account:
\* the pool takes the transaction unless it is full
send_signed_transaction(w, pool, call, arg) ==
  LET tx == Transaction(LocalAccount, call, arg) IN
  IF Len(pool) < MaxPool
  THEN [ok |-> TRUE, w |-> [w EXCEPT !.sent = Append(@, tx)], pool |-> Append(pool, tx)]
  ELSE [ok |-> FALSE, w |-> w, pool |-> pool]

\* what ipfs::identity gets from the daemon
DaemonAnswers == {"ok", "unreachable"}

\* fetch_identity_json
fetch_identity_json(daemon) ==
  IF daemon = "unreachable"
  THEN [is_ok |-> FALSE, err |-> "IpfsNotAvailable"]
  ELSE [is_ok |-> TRUE, json |-> [ID |-> DaemonPubkey, Addresses |-> DaemonAddresses]]

\* mutant of offchain_worker: is_validator is not asked
offchain_worker_any_node(block, validator, view) ==
  IF block % NodeConfigBlockDuration = 0
  THEN Invocation("ipfs_verify_identity", block, view)
  ELSE Invocation("returned", block, view)

\* offchain_worker, up to the call of ipfs_verify_identity
offchain_worker(block, validator, view) ==
  IF block % NodeConfigBlockDuration = 0
  THEN IF validator
       THEN Invocation("ipfs_verify_identity", block, view)
       ELSE Invocation("returned", block, view)
  ELSE Invocation("returned", block, view)

\* ipfs_verify_identity, and what offchain_worker does with its result
ipfs_verify_identity(w, pool, daemon) ==
  LET id_json == fetch_identity_json(daemon) IN
  IF ~id_json.is_ok
  THEN [w |-> [w EXCEPT !.pc = "returned", !.errors = @ \cup {"ipfs_verify_identity"}],
        pool |-> pool]
  ELSE
    LET s == send_signed_transaction(w, pool, "submit_ipfs_identity",
               [public_key |-> id_json.json.ID, multiaddresses |-> id_json.json.Addresses])
    IN [w |-> [s.w EXCEPT !.pc = "fetch_identity_json"], pool |-> s.pool]

\* offchain_worker: fetch_identity_json().expect(..) and the lookup of the
\* account bound to the daemon's public key
fetch_identity(w, daemon) ==
  LET id_json == fetch_identity_json(daemon) IN
  IF ~id_json.is_ok
  THEN [w EXCEPT !.pc = "panicked", !.errors = @ \cup {"fetch_identity_json"}]
  ELSE
    LET pubkey == id_json.json.ID
        addr == w.view.bridge[pubkey]
    IN IF addr = None
       THEN [w EXCEPT !.pc = "returned"]
       ELSE [w EXCEPT !.pc = "ipfs_update_configs", !.account = addr]

\* what the environment decides in ipfs_update_configs: whether the gateway
\* pallet holds preferences for the account, and how the daemon answers
ConfigEnvs == [prefs : BOOLEAN, configUpdateOk : BOOLEAN, repoStatOk : BOOLEAN]

\* mutant of ingestion_queue: the queue of the node's own account
ingestion_queue_of_signer(w) == ingestion_requests(w.view, LocalAccount)

\* handle_ingestion_queue: the queue of the account in the state of the block
ingestion_queue(w) == ingestion_requests(w.view, w.account)

\* ipfs_update_configs, and the entry into handle_ingestion_queue
ipfs_update_configs(w, pool, env) ==
  LET enter(v) == [v EXCEPT !.pc = "handle_ingestion_queue",
                            !.queued_commands = ingestion_queue(v)]
  IN
  IF ~env.prefs
  THEN [w |-> enter(w), pool |-> pool]
  ELSE
    LET w1 == IF env.configUpdateOk THEN w
              ELSE [w EXCEPT !.errors = @ \cup {"config_update"}]
    IN
    IF ~env.repoStatOk
    THEN [w |-> [w1 EXCEPT !.pc = "panicked", !.errors = @ \cup {"repo_stat"}],
          pool |-> pool]
    ELSE
      LET actual_storage == RepoStat.StorageMax
          s == send_signed_transaction(w1, pool, "submit_config_complete", actual_storage)
      IN [w |-> enter(s.w), pool |-> s.pool]

\* how the daemon answers connect, get and disconnect for one command
FetchEnvs ==
  {[connectOk |-> TRUE, getOk |-> TRUE, disconnectOk |-> TRUE],
   [connectOk |-> FALSE, getOk |-> TRUE, disconnectOk |-> TRUE],
   [connectOk |-> TRUE, getOk |-> FALSE, disconnectOk |-> TRUE],
   [connectOk |-> TRUE, getOk |-> TRUE, disconnectOk |-> FALSE]}

\* mutant of next_command: the queue is gone through from its end
next_command_rev(queued_commands, idx) == queued_commands[Len(queued_commands) + 1 - idx]

\* queued_commands.iter(): the command the loop is at
next_command(queued_commands, idx) == queued_commands[idx]

\* mutant of handle_ingestion_command: a failed daemon call ends the loop
handle_ingestion_command_returns(w, pool, env) ==
  LET cmd == next_command(w.queued_commands, w.idx)
      attempt(submitted) ==
        [cmd |-> cmd, connectOk |-> env.connectOk, getOk |-> env.getOk,
         disconnectOk |-> env.disconnectOk, submitted |-> submitted]
  IN
  IF ~(env.connectOk /\ env.getOk /\ env.disconnectOk)
  THEN [w |-> [w EXCEPT !.pc = "returned", !.attempts = Append(@, attempt(FALSE))],
        pool |-> pool]
  ELSE
    LET s == send_signed_transaction(w, pool, "submit_ingestion_completed", cmd)
    IN [w |-> [s.w EXCEPT !.idx = @ + 1, !.attempts = Append(@, attempt(s.ok))],
        pool |-> s.pool]

\* handle_ingestion_queue: the body of the loop, for the command at idx
handle_ingestion_command(w, pool, env) ==
  LET cmd == next_command(w.queued_commands, w.idx)
      s == send_signed_transaction(w, pool, "submit_ingestion_completed", cmd)
  IN [w |-> [s.w EXCEPT !.idx = @ + 1,
                        !.attempts = Append(@,
                           [cmd |-> cmd, connectOk |-> env.connectOk, getOk |-> env.getOk,
                            disconnectOk |-> env.disconnectOk, submitted |-> s.ok])],
      pool |-> s.pool]

\* ------------------------------------------------- the capsule fragments
\* crypto_box: a ciphertext sealed under the shared key of an ephemeral key
\* pair and a recipient key pair, with a nonce; intact is false when a bit of
\* the ciphertext or of its tag was changed after sealing
Seal(ephemeral, recipient, nonce, plaintext) ==
  [ephemeral |-> ephemeral, recipient |-> recipient, nonce |-> nonce,
   plaintext |-> plaintext, intact |-> TRUE]

Tamper(ciphertext) == [ciphertext EXCEPT !.intact = FALSE]

\* SalsaBox::new(&ephemeral_pk, &secret_key).decrypt(nonce, ciphertext): the
\* tag verifies for the key pairs and the nonce of the sealing, on an intact
\* ciphertext only
box_decrypt(ephemeral_pk, secret_key, nonce, ciphertext) ==
  IF /\ ciphertext.intact
     /\ ciphertext.ephemeral = ephemeral_pk
     /\ ciphertext.recipient = secret_key
     /\ ciphertext.nonce = nonce
  THEN [is_ok |-> TRUE, value |-> ciphertext.plaintext]
  ELSE [is_ok |-> FALSE, value |-> None]

\* byte strings that are the serialisation of a capsule fragment, and one
\* that is not
CfragBytes == {"cfrag1"}
PlaintextBytes == CfragBytes \cup {"garbage"}

\* VerifiedCapsuleFrag::from_verified_bytes
from_verified_bytes(bytes) ==
  IF bytes \in CfragBytes
  THEN [is_ok |-> TRUE, value |-> [verified_cfrag |-> bytes]]
  ELSE [is_ok |-> FALSE, value |-> None]

\* the keys: ephemeral public keys of 32 bytes and one byte string that is
\* shorter; the recipients' secret keys
EphemeralKeys == {"E1", "E2"}
BoxSecretKeys == {"R1", "R2"}

\* iris_primitives::slice_to_array_32
slice_to_array_32(slice) ==
  IF slice \in EphemeralKeys
  THEN [is_ok |-> TRUE, value |-> slice]
  ELSE [is_ok |-> FALSE, value |-> None]

\* iris_primitives::EncryptedFragment
EncryptedFragment(public_key, nonce, ciphertext) ==
  [public_key |-> public_key, nonce |-> nonce, ciphertext |-> ciphertext]

\* the fragments handed in: sealed with the ephemeral key E1 for the recipient
\* R1, then possibly tampered with, and labelled with a public key
EncryptedFragments ==
  {EncryptedFragment(pk, "n1", ct) :
     pk \in EphemeralKeys \cup {"short"},
     ct \in {Seal("E1", "R1", "n1", b) : b \in PlaintextBytes}
          \cup {Tamper(Seal("E1", "R1", "n1", b)) : b \in PlaintextBytes}}

\* decrypt_capsule_fragments, one fragment: the closure of the map, whose
\* three unwrap() panic on a failure
decrypt_capsule_fragment(frag, secret_key) ==
  LET pubkey_slice_32 == slice_to_array_32(frag.public_key) IN
  IF ~pubkey_slice_32.is_ok
  THEN [panic |-> TRUE, value |-> None]
  ELSE
    LET decrypted_frag_vec ==
          box_decrypt(pubkey_slice_32.value, secret_key, frag.nonce, frag.ciphertext)
    IN
    IF ~decrypted_frag_vec.is_ok
    THEN [panic |-> TRUE, value |-> None]
    ELSE
      LET cfrag == from_verified_bytes(decrypted_frag_vec.value) IN
      IF ~cfrag.is_ok
      THEN [panic |-> TRUE, value |-> None]
      ELSE [panic |-> FALSE, value |-> cfrag.value]

\* decrypt_capsule_fragments: the Vec of the verified fragments, or a panic;
\* the function has no error to return
decrypt_capsule_fragments(encrypted_cfrags, secret_key) ==
  LET each == [i \in 1..Len(encrypted_cfrags) |->
                 decrypt_capsule_fragment(encrypted_cfrags[i], secret_key)]
  IN
  IF \E i \in 1..Len(each) : each[i].panic
  THEN [kind |-> "Panic", value |-> <<>>]
  ELSE [kind |-> "Vec", value |-> [i \in 1..Len(each) |-> each[i].value]]

\* ------------------------------------------------------------ decrypt
\* the sequences of at most n elements of S
SeqUpTo(S, n) == UNION {[1..k -> S] : k \in 0..n}

\* the payloads: byte strings of at most MaxPlaintext bytes
Bytes == {"a", "b"}
Plaintexts == SeqUpTo(Bytes, MaxPlaintext)

\* the split of the symmetric key: 5 fragments, any 3 of which reconstruct it
Shares == 5
Threshold == 3

\* encrypt(plaintext, shares, threshold, delegate_public_key): the capsule,
\* the ciphertext (every byte of the plaintext sealed under the symmetric key,
\* and the tag of the authenticated encryption) and the key fragments, one
\* for each share
encrypt(plaintext, shares, threshold) ==
  [capsule |-> [shares |-> shares, threshold |-> threshold],
   ciphertext |-> [i \in 1..(Len(plaintext) + 1) |->
                     IF i <= Len(plaintext) THEN <<"sealed", plaintext[i]>>
                     ELSE <<"tag", Len(plaintext)>>],
   kfrags |-> 1..shares]

\* the signatures handed to decrypt: one that verifies for the signer and the
\* message, and one that does not
Signatures == {"valid", "invalid"}

\* decrypt: the body that verifies the signature, recovers the fragments and
\* decrypts is commented out, and the function returns Some of an empty
\* byte string for every input
decrypt(signature, signer, message, ciphertext, asset_id, secret_key_bytes) ==
  [kind |-> "Some", value |-> <<>>]

\* ------------------------------------------------------------- the calls
\* the call applied last: the dispatchable, the account whose storage entry it
\* addresses, its argument, the key staged for the owner concerned when it
\* began, what it returned and the events it deposited
Call(op, who, arg, staged, r) ==
  [op |-> op, who |-> who, arg |-> arg, staged |-> staged,
   result |-> r.result, events |-> r.events]

TotalEnqueued ==
  LET RECURSIVE Sum(_)
      Sum(S) == IF S = {} THEN 0
                ELSE LET x == CHOOSE x \in S : TRUE
                     IN enqueued[x[1]][x[2]] + Sum(S \ {x})
  IN Sum(Gateways \X Cmds)

\* what the environment decides in a call that creates an asset class: whether
\* the registrar accepts, and whether the build traps on integer overflow
\* (which only matters when the counter is at the end of its range)
AssetEnvs ==
  [createOk : BOOLEAN,
   overflowChecks : IF NextAssetId + 1 >= AssetIdModulus THEN BOOLEAN ELSE {FALSE}]
\* whether pallet_vesting accepts the vested transfer (the accepted transfer
\* is listed, and so explored, first)
TransferEnvs == <<[transferOk |-> TRUE], [transferOk |-> FALSE]>>

\* the storage of pallet ipfs at genesis, and a node that is a validator or
\* not as the set validators allows, before its first block
InitNode(validators) ==
  /\ SubstrateIpfsBridge = [k \in DaemonPubkeys |-> None]
  /\ BootstrapNodes = [k \in DaemonPubkeys |-> <<>>]
  /\ Stats = [a \in Gateways |-> 0]
  /\ block_number = 0
  /\ is_validator \in validators
  /\ ocw = Idle
  /\ txpool = <<>>

\* decrypt_capsule_fragments has not returned
NoResult == [kind |-> "None", value |-> <<>>]
\* no call of decrypt_capsule_fragments
NoCfrags == [encrypted_cfrags |-> <<>>, secret_key |-> None, result |-> NoResult]

\* no call of decrypt
NoDecrypted ==
  [plaintext |-> <<>>, ciphertext |-> <<>>, verified_fragments |-> {},
   signature |-> None, secret_key |-> None, result |-> NoResult]
\* no add_ingestion_staging call counted
NoStagings == [o \in Owners |-> 0]

InitLedger ==
  /\ IngestionCommands = [g \in Gateways |-> <<>>]
  /\ IngestionStaging = [o \in Owners |-> None]
  /\ Metadata = [i \in {} |-> None]
  /\ Assets = [i \in {} |-> None]
  /\ NextAssetId = InitialAssetId
  /\ enqueued = [g \in Gateways |-> [c \in Cmds |-> 0]]
  /\ last = Call("genesis", None, None, None, Outcome(None, "Ok", <<>>))

Init ==
  /\ InitLedger
  /\ InitNode({TRUE})
  /\ cfrags = NoCfrags
  /\ decrypted = NoDecrypted
  /\ stagings = NoStagings

CreateRequest ==
  \E who \in Owners, gateway \in Gateways,
     multiaddress \in Multiaddresses, size \in Sizes, balance \in Balances,
     e \in DOMAIN TransferEnvs :
    /\ TotalEnqueued < MaxEnqueued
    /\ LET env == TransferEnvs[e]
           cid == CidOf(who)
           r == create_request(Ledger, who, gateway, cid, multiaddress, size, balance, env)
           cmd == IngestionCommand(who, cid, multiaddress, size, balance)
       IN /\ SetLedger(r.st)
          /\ enqueued' = [enqueued EXCEPT ![lookup(gateway)][cmd] = @ + 1]
          /\ last' = Call("create_request", lookup(gateway), cmd, IngestionStaging[who], r)
    /\ UNCHANGED <<ipfsVars, nodeVars, callVars>>

AddIngestionStaging ==
  \E owner \in Owners, public_key \in PublicKeys :
    /\ SetLedger(add_ingestion_staging(Ledger, owner, public_key))
    /\ last' = Call("add_ingestion_staging", owner, public_key,
                    IngestionStaging[owner], Outcome(None, "Ok", <<>>))
    /\ UNCHANGED <<enqueued, ipfsVars, nodeVars, callVars>>

SubmitIngestionCompleted ==
  \E who \in Gateways, cmd \in Cmds, env \in AssetEnvs :
    /\ NextAssetId - InitialAssetId < MaxAssetIds
    /\ LET r == submit_ingestion_completed(Ledger, who, cmd, env)
       IN /\ SetLedger(r.st)
          /\ last' = Call("submit_ingestion_completed", who, cmd,
                          IngestionStaging[cmd.owner], r)
    /\ UNCHANGED <<enqueued, ipfsVars, nodeVars, callVars>>

\* create_asset_class reached through the ResultsHandler trait directly
CreateAssetClass ==
  \E who \in Gateways, cmd \in Cmds, env \in AssetEnvs :
    /\ NextAssetId - InitialAssetId < MaxAssetIds
    /\ LET r == create_asset_class(Ledger, who, cmd, env)
       IN /\ SetLedger(r.st)
          /\ last' = Call("create_asset_class", who, cmd, IngestionStaging[cmd.owner], r)
    /\ UNCHANGED <<enqueued, ipfsVars, nodeVars, callVars>>

BumpRequest ==
  \E who \in Owners, amount \in Balances :
    /\ LET r == bump_request(Ledger, who, amount)
       IN /\ SetLedger(r.st)
          /\ last' = Call("bump_request", who, amount, IngestionStaging[who], r)
    /\ UNCHANGED <<enqueued, ipfsVars, nodeVars, callVars>>

KillRequest ==
  \E who \in Owners :
    /\ LET r == kill_request(Ledger, who)
       IN /\ SetLedger(r.st)
          /\ last' = Call("kill_request", who, None, IngestionStaging[who], r)
    /\ UNCHANGED <<enqueued, ipfsVars, nodeVars, callVars>>

Next ==
  \/ CreateRequest
  \/ BumpRequest
  \/ KillRequest
  \/ AddIngestionStaging
  \/ SubmitIngestionCompleted
  \/ CreateAssetClass

Spec == Init /\ [][Next]_vars

\* ------------------------------------------------------ the node's steps
ledgerVars == <<IngestionCommands, IngestionStaging, Metadata, NextAssetId,
                Assets, enqueued, last>>

\* a block is imported and offchain_worker is invoked for it; the node runs one
\* invocation at a time, and the block holds every transaction that was in the
\* pool.  The worker reads the block number through
\* block_number % NodeConfigBlockDuration only, and the number is kept in that
\* range
Tick ==
  /\ ocw.pc = "idle"
  /\ txpool = <<>>
  /\ block_number' = (block_number + 1) % NodeConfigBlockDuration
  /\ ocw' = offchain_worker(block_number', is_validator, View)
  /\ UNCHANGED <<ledgerVars, ipfsVars, is_validator, txpool, callVars>>

\* the steps take the daemon's answer from the set given
VerifyIdentity(answers) ==
  /\ ocw.pc = "ipfs_verify_identity"
  /\ \E daemon \in answers :
       LET r == ipfs_verify_identity(ocw, txpool, daemon)
       IN ocw' = r.w /\ txpool' = r.pool
  /\ UNCHANGED <<ledgerVars, ipfsVars, block_number, is_validator, callVars>>

FetchIdentity(answers) ==
  /\ ocw.pc = "fetch_identity_json"
  /\ \E daemon \in answers : ocw' = fetch_identity(ocw, daemon)
  /\ UNCHANGED <<ledgerVars, ipfsVars, block_number, is_validator, txpool, callVars>>

UpdateConfigs(envs) ==
  /\ ocw.pc = "ipfs_update_configs"
  /\ \E env \in envs :
       LET r == ipfs_update_configs(ocw, txpool, env)
       IN ocw' = r.w /\ txpool' = r.pool
  /\ UNCHANGED <<ledgerVars, ipfsVars, block_number, is_validator, callVars>>

HandleIngestionCommand(envs) ==
  /\ ocw.pc = "handle_ingestion_queue"
  /\ ocw.idx <= Len(ocw.queued_commands)
  /\ \E env \in envs :
       LET r == handle_ingestion_command(ocw, txpool, env)
       IN ocw' = r.w /\ txpool' = r.pool
  /\ UNCHANGED <<ledgerVars, ipfsVars, block_number, is_validator, callVars>>

\* the loop is through the queue: handle_ingestion_queue returns Ok(())
HandleIngestionQueueReturns ==
  /\ ocw.pc = "handle_ingestion_queue"
  /\ ocw.idx > Len(ocw.queued_commands)
  /\ ocw' = [ocw EXCEPT !.pc = "returned"]
  /\ UNCHANGED <<ledgerVars, ipfsVars, block_number, is_validator, txpool, callVars>>

\* the invocation is over, by return or by panic
OffchainWorkerEnds ==
  /\ ocw.pc \in {"returned", "panicked"}
  /\ ocw' = Idle
  /\ UNCHANGED <<ledgerVars, ipfsVars, block_number, is_validator, txpool, callVars>>

\* the transaction at the head of the pool is included in the next block: the
\* transactions of one signer are applied in the order of their nonces.  An
\* invocation reads the state of its own block throughout, and the next block
\* is applied here when it has ended
ApplyIpfsIdentity ==
  /\ ocw.pc = "idle"
  /\ txpool # <<>>
  /\ Head(txpool).call = "submit_ipfs_identity"
  /\ LET tx == Head(txpool)
         r == submit_ipfs_identity(IpfsStore, tx.signer, tx.arg.public_key,
                                   tx.arg.multiaddresses)
     IN /\ SetIpfsStore(r.st)
        /\ last' = Call("submit_ipfs_identity", tx.signer, tx.arg, None, r)
  /\ txpool' = Tail(txpool)
  /\ UNCHANGED <<IngestionCommands, IngestionStaging, Metadata, NextAssetId, Assets,
                 enqueued, block_number, is_validator, ocw, callVars>>

ApplyConfigComplete ==
  /\ ocw.pc = "idle"
  /\ txpool # <<>>
  /\ Head(txpool).call = "submit_config_complete"
  /\ LET tx == Head(txpool)
         r == submit_config_complete(IpfsStore, tx.signer, tx.arg)
     IN /\ SetIpfsStore(r.st)
        /\ last' = Call("submit_config_complete", tx.signer, tx.arg, None, r)
  /\ txpool' = Tail(txpool)
  /\ UNCHANGED <<IngestionCommands, IngestionStaging, Metadata, NextAssetId, Assets,
                 enqueued, block_number, is_validator, ocw, callVars>>

\* the registrar accepts
AcceptingEnvs == {env \in AssetEnvs : env.createOk}

ApplyIngestionCompleted ==
  /\ ocw.pc = "idle"
  /\ txpool # <<>>
  /\ Head(txpool).call = "submit_ingestion_completed"
  /\ \E env \in AcceptingEnvs :
       LET tx == Head(txpool)
           r == submit_ingestion_completed(Ledger, tx.signer, tx.arg, env)
       IN /\ r.st.next # NextAssetId => NextAssetId - InitialAssetId < MaxAssetIds
          /\ SetLedger(r.st)
          /\ last' = Call("submit_ingestion_completed", tx.signer, tx.arg,
                          IngestionStaging[tx.arg.owner], r)
  /\ txpool' = Tail(txpool)
  /\ UNCHANGED <<enqueued, ipfsVars, block_number, is_validator, ocw, callVars>>

\* the owners make their requests and stage their keys before the node's
\* daemon identity is on chain, while the node is between two invocations
\* and its pool is empty
BeforeIdentity ==
  /\ SubstrateIpfsBridge[DaemonPubkey] = None
  /\ ocw.pc = "idle"
  /\ txpool = <<>>

\* an owner asks the node's account to ingest its dataset, the vested transfer
\* being accepted; with staged set, only an owner who has a key staged does
RequestIngestion(staged) ==
  \E who \in Owners, multiaddress \in Multiaddresses, size \in Sizes,
     balance \in Balances :
    /\ BeforeIdentity
    /\ TotalEnqueued < MaxEnqueued
    /\ staged => IngestionStaging[who] # None
    /\ LET cid == CidOf(who)
           r == create_request(Ledger, who, LocalAccount, cid, multiaddress, size,
                               balance, TransferEnvs[1])
           cmd == IngestionCommand(who, cid, multiaddress, size, balance)
       IN /\ SetLedger(r.st)
          /\ enqueued' = [enqueued EXCEPT ![lookup(LocalAccount)][cmd] = @ + 1]
          /\ last' = Call("create_request", lookup(LocalAccount), cmd,
                          IngestionStaging[who], r)
    /\ UNCHANGED <<ipfsVars, nodeVars, callVars>>

\* an owner stages the key k1
StageKey ==
  \E owner \in Owners :
    /\ BeforeIdentity
    /\ SetLedger(add_ingestion_staging(Ledger, owner, "k1"))
    /\ last' = Call("add_ingestion_staging", owner, "k1",
                    IngestionStaging[owner], Outcome(None, "Ok", <<>>))
    /\ UNCHANGED <<enqueued, ipfsVars, nodeVars, callVars>>

InitWorker ==
  /\ InitLedger
  /\ InitNode(BOOLEAN)
  /\ cfrags = NoCfrags
  /\ decrypted = NoDecrypted
  /\ stagings = NoStagings

NextWorker ==
  \/ Tick
  \/ VerifyIdentity(DaemonAnswers)
  \/ FetchIdentity(DaemonAnswers)
  \/ UpdateConfigs(ConfigEnvs)
  \/ HandleIngestionCommand(FetchEnvs)
  \/ HandleIngestionQueueReturns
  \/ OffchainWorkerEnds
  \/ ApplyIpfsIdentity
  \/ ApplyConfigComplete
  \/ ApplyIngestionCompleted
  \/ RequestIngestion(FALSE)
  \/ StageKey

\* the ledger and one node's offchain worker
SpecWorker == InitWorker /\ [][NextWorker]_vars

\* ------------------------------------------------------------ the claims
ledger == <<IngestionCommands, IngestionStaging, Metadata, NextAssetId>>

\* occurrences of cmd in the sequence q
count(q, cmd) == Cardinality({i \in 1..Len(q) : q[i] = cmd})

\* cmd is in gateway g's queue, before and after the step
Queued(g, cmd) == count(IngestionCommands[g], cmd) > 0
QueuedAfter(g, cmd) == count(IngestionCommands'[g], cmd) > 0

\* the asset ids registered by gateway g for command cmd: the registrar holds the
\* class (created by g, administered by the owner, with the command's balance)
\* and Metadata holds the command's cid under the same id
Registered(g, cmd) ==
  {id \in DOMAIN Metadata \cap DOMAIN Assets :
     /\ Assets[id].owner = g
     /\ Assets[id].admin = cmd.owner
     /\ Assets[id].min_balance = cmd.balance
     /\ Metadata[id].cid = cmd.cid}

\* the same, after the step
RegisteredAfter(g, cmd) ==
  {id \in DOMAIN Metadata' \cap DOMAIN Assets' :
     /\ Assets'[id].owner = g
     /\ Assets'[id].admin = cmd.owner
     /\ Assets'[id].min_balance = cmd.balance
     /\ Metadata'[id].cid = cmd.cid}

\* the step is a completion report (its signer is last'.who, its command last'.arg)
IsReport == last'.op = "submit_ingestion_completed"

\* C1: at-most-once effect.  In every state reached, the assets a gateway has
\* registered for a command are at most as many as the times the command was
\* queued for it (at most one for a command queued once); a step that writes
\* Metadata writes one record and advances NextAssetId once; and a report for a
\* command all of whose queued occurrences are registered changes no ledger state.
C1_AtMostOnce ==
  [][/\ \A g \in Gateways, c \in Cmds :
          Cardinality(RegisteredAfter(g, c)) <= enqueued'[g][c]
     /\ Metadata' # Metadata =>
          /\ Cardinality(DOMAIN Metadata') = Cardinality(DOMAIN Metadata) + 1
          /\ NextAssetId' = (NextAssetId + 1) % AssetIdModulus
     /\ (/\ IsReport
         /\ enqueued[last'.who][last'.arg] >= 1
         /\ Cardinality(Registered(last'.who, last'.arg)) = enqueued[last'.who][last'.arg])
        => UNCHANGED <<ledger, Assets>>
    ]_vars

\* C1 witness: a second report for a command queued once and already registered,
\* made while its owner has staged a key again
C1_Witness ==
  /\ last.op = "submit_ingestion_completed"
  /\ enqueued[last.who][last.arg] = 1
  /\ Cardinality(Registered(last.who, last.arg)) = 1
  /\ last.staged # None

\* C2 as stated: a report for a command that is not in the signer's queue
\* returns Ok.
C2_AbsentReportIsOk ==
  [][(IsReport /\ ~Queued(last'.who, last'.arg))
       => last'.result = "Ok"]_vars

\* C2 amended: a report for a command that is not in the signer's queue is
\* rejected with NotAuthorized (and, being rejected, leaves the queue as it was).
C2_AbsentReportIsRejected ==
  [][(IsReport /\ ~Queued(last'.who, last'.arg))
       => /\ last'.result = "NotAuthorized"
          /\ IngestionCommands' = IngestionCommands]_vars

\* C2 witness: a rejected report
C2_Witness ==
  /\ last.op = "submit_ingestion_completed"
  /\ last.result = "NotAuthorized"

\* C3: a report for a command that is not in the signer's queue changes none of
\* IngestionCommands, IngestionStaging, Metadata, NextAssetId, does not panic
\* and deposits no IngestionComplete event.
C3_AbsentReportNoChange ==
  [][(IsReport /\ ~Queued(last'.who, last'.arg))
       => /\ UNCHANGED ledger
          /\ last'.result # "Panic"
          /\ \A i \in 1..Len(last'.events) : last'.events[i] # "IngestionComplete"]_vars

\* C3 witness: a report for an absent command whose owner has a staged key, made
\* while the signer's queue holds another command
C3_Witness ==
  /\ last.op = "submit_ingestion_completed"
  /\ ~Queued(last.who, last.arg)
  /\ last.staged # None
  /\ IngestionCommands[last.who] # <<>>
  /\ last.result # "Ok"

\* the step is a completion report accepted with Ok
IsAcceptedReport == IsReport /\ last'.result = "Ok"

\* C4 as stated: when a command was queued twice for a gateway and one asset is
\* registered for it, the next accepted report for it (the report for the other
\* entry) registers no further asset and leaves no copy of the command in the
\* gateway's queue.
C4_DuplicateEnqueue ==
  [][(/\ IsAcceptedReport
      /\ enqueued[last'.who][last'.arg] = 2
      /\ Cardinality(Registered(last'.who, last'.arg)) = 1)
       => /\ Cardinality(RegisteredAfter(last'.who, last'.arg)) = 1
          /\ ~QueuedAfter(last'.who, last'.arg)]_vars

\* what C5 says an accepted report has done: one occurrence of the command is
\* gone from the signer's queue (with a single queued command, the queue is
\* empty) and Metadata holds the command's cid under the id newly allocated
C5_Effect ==
  /\ count(IngestionCommands'[last'.who], last'.arg)
       = count(IngestionCommands[last'.who], last'.arg) - 1
  /\ Len(IngestionCommands'[last'.who]) = Len(IngestionCommands[last'.who]) - 1
  /\ Len(IngestionCommands[last'.who]) = 1 => IngestionCommands'[last'.who] = <<>>
  /\ NextAssetId \notin DOMAIN Metadata
  /\ NextAssetId \in DOMAIN Metadata'
  /\ Metadata'[NextAssetId].cid = last'.arg.cid

C6_Append ==
  [][last'.op = "create_request"
       => IngestionCommands' =
            [IngestionCommands EXCEPT ![last'.who] = Append(@, last'.arg)]]_vars

\* C6 witness: a create_request after which the queue holds the command twice
C6_Witness ==
  /\ last.op = "create_request"
  /\ count(IngestionCommands[last.who], last.arg) = 2

\* C7 as stated: create_asset_class for a command that is not in the signer's
\* queue, the owner's key staged, returns (Ok, or the registrar's error before
\* the removal is reached) and does not panic.
C7_RemovalNoOp ==
  [][(/\ last'.op = "create_asset_class"
      /\ ~Queued(last'.who, last'.arg)
      /\ IngestionStaging[last'.arg.owner] # None)
       => last'.result \in {"Ok", "CantCreateAssetClass"}]_vars

\* C8 as stated: a create_request that returns an error leaves the queues as
\* they were, and a completion report that returns NotAuthorized or
\* CantCreateAssetClass leaves IngestionCommands, IngestionStaging, Metadata
\* and NextAssetId as they were.
C8_AllOrNothing ==
  [][/\ (last'.op = "create_request" /\ last'.result # "Ok")
          => IngestionCommands' = IngestionCommands
     /\ (IsReport /\ last'.result \in {"NotAuthorized", "CantCreateAssetClass"})
          => UNCHANGED ledger]_vars

\* C9: a completion report that fails in the registrar returns the error and
\* leaves the command queued, the owner's key staged and Metadata unwritten.
C9_FailureKeepsWork ==
  [][(IsReport /\ last'.result = "CantCreateAssetClass")
       => /\ QueuedAfter(last'.who, last'.arg)
          /\ IngestionCommands' = IngestionCommands
          /\ IngestionStaging'[last'.arg.owner] # None
          /\ IngestionStaging' = IngestionStaging
          /\ Metadata' = Metadata
          /\ Assets' = Assets]_vars

\* C9 witness: a report that failed in the registrar
C9_Witness ==
  /\ last.op = "submit_ingestion_completed"
  /\ last.result = "CantCreateAssetClass"
  /\ Queued(last.who, last.arg)
  /\ IngestionStaging[last.arg.owner] # None

\* the step stages a key for an owner who has another key staged
IsSecondStaging ==
  /\ last'.op = "add_ingestion_staging"
  /\ IngestionStaging[last'.who] # None
  /\ IngestionStaging[last'.who] # last'.arg

\* C10 as stated: staging a second key for an owner is rejected and the first
\* key stays staged.
C10_SecondStagingRejected ==
  [][IsSecondStaging => IngestionStaging'[last'.who] = IngestionStaging[last'.who]]_vars

\* C10 amended: an owner has one staged entry at a time, and staging a second
\* key replaces the first: afterwards the second key is the owner's staged
\* entry and every other owner's entry is as it was.
C10_SecondStagingReplaces ==
  [][IsSecondStaging
       => IngestionStaging' = [IngestionStaging EXCEPT ![last'.who] = last'.arg]]_vars

\* C10 witness: a key staged over another one
C10_Witness ==
  /\ last.op = "add_ingestion_staging"
  /\ last.staged \notin {None, last.arg}
  /\ IngestionStaging[last.who] = last.arg

\* the step is a finalize: a call that runs create_asset_class
IsFinalize == last'.op \in {"submit_ingestion_completed", "create_asset_class"}

\* C11: staging lifecycle.  An owner's staged entry appears or changes only in
\* add_ingestion_staging for that owner, which stages the key given; it
\* disappears only in a finalize that registers an asset for a command of that
\* owner; and after every such registration the owner has no staged entry.
C11_StagingLifecycle ==
  [][/\ \A o \in Owners :
          /\ (IngestionStaging'[o] # IngestionStaging[o] /\ IngestionStaging'[o] # None)
               => /\ last'.op = "add_ingestion_staging"
                  /\ last'.who = o
                  /\ IngestionStaging'[o] = last'.arg
          /\ (IngestionStaging[o] # None /\ IngestionStaging'[o] = None)
               => /\ IsFinalize
                  /\ last'.result = "Ok"
                  /\ last'.arg.owner = o
                  /\ RegisteredAfter(last'.who, last'.arg) # Registered(last'.who, last'.arg)
     /\ (IsFinalize /\ Metadata' # Metadata)
          => IngestionStaging'[last'.arg.owner] = None
     /\ last'.op = "add_ingestion_staging"
          => IngestionStaging'[last'.who] = last'.arg
    ]_vars

\* C11 witness: a finalize registered an asset and the owner's staged key is gone
C11_Witness ==
  /\ last.op = "submit_ingestion_completed"
  /\ last.result = "Ok"
  /\ last.staged # None
  /\ Registered(last.who, last.arg) # {}
  /\ IngestionStaging[last.arg.owner] = None

\* C12: metadata is write-once.  Every Metadata record of a state is there,
\* unchanged, after every step; and a step that writes Metadata adds one record,
\* under the id NextAssetId held, which had no record.
C12_WriteOnce ==
  [][/\ \A id \in DOMAIN Metadata :
          id \in DOMAIN Metadata' /\ Metadata'[id] = Metadata[id]
     /\ Metadata' # Metadata
          => /\ NextAssetId \notin DOMAIN Metadata
             /\ DOMAIN Metadata' = DOMAIN Metadata \cup {NextAssetId}
             /\ IsFinalize
    ]_vars

\* C12 witness: a second record was written while the first one was there
C12_Witness ==
  /\ Cardinality(DOMAIN Metadata) = 2
  /\ last.op = "submit_ingestion_completed"
  /\ last.events = <<"IngestionComplete">>

\* C13 as stated: after kill_request by an owner, no command of that owner is
\* in any gateway's queue.
C13_KillRemoves ==
  [][last'.op = "kill_request"
       => \A g \in Gateways, c \in Cmds : c.owner = last'.who => ~QueuedAfter(g, c)]_vars

\* the daemon is reachable and answers every call
ReachableConfigEnvs == {env \in ConfigEnvs : env.configUpdateOk /\ env.repoStatOk}
ReachableFetchEnvs == {env \in FetchEnvs : env.connectOk /\ env.getOk /\ env.disconnectOk}

\* the node is a validator, its daemon stays reachable, the registrar accepts,
\* and an owner makes a request only while it has a key staged
NextLive ==
  \/ Tick
  \/ VerifyIdentity({"ok"})
  \/ FetchIdentity({"ok"})
  \/ UpdateConfigs(ReachableConfigEnvs)
  \/ HandleIngestionCommand(ReachableFetchEnvs)
  \/ HandleIngestionQueueReturns
  \/ OffchainWorkerEnds
  \/ ApplyIpfsIdentity
  \/ ApplyConfigComplete
  \/ ApplyIngestionCompleted
  \/ RequestIngestion(TRUE)
  \/ StageKey

\* blocks keep being imported, an invocation that has started runs to its end,
\* and a transaction in the pool is included; nothing makes an owner act
Fairness ==
  /\ WF_vars(Tick)
  /\ WF_vars(VerifyIdentity({"ok"}))
  /\ WF_vars(FetchIdentity({"ok"}))
  /\ WF_vars(UpdateConfigs(ReachableConfigEnvs))
  /\ WF_vars(HandleIngestionCommand(ReachableFetchEnvs))
  /\ WF_vars(HandleIngestionQueueReturns)
  /\ WF_vars(OffchainWorkerEnds)
  /\ WF_vars(ApplyIpfsIdentity)
  /\ WF_vars(ApplyConfigComplete)
  /\ WF_vars(ApplyIngestionCompleted)

SpecLive == Init /\ [][NextLive]_vars /\ Fairness

\* -------------------------------------------- decrypt_capsule_fragments
\* the ledger and the node at rest, and the arguments of one call
InitCrypto ==
  /\ InitLedger
  /\ InitNode({TRUE})
  /\ \E encrypted_cfrags \in SeqUpTo(EncryptedFragments, MaxFragments),
        secret_key \in BoxSecretKeys :
       cfrags = [encrypted_cfrags |-> encrypted_cfrags, secret_key |-> secret_key,
                 result |-> NoResult]
  /\ decrypted = NoDecrypted
  /\ stagings = NoStagings

DecryptCapsuleFragments ==
  /\ cfrags.result = NoResult
  /\ cfrags' = [cfrags EXCEPT
                  !.result = decrypt_capsule_fragments(cfrags.encrypted_cfrags,
                                                       cfrags.secret_key)]
  /\ UNCHANGED <<ledgerVars, ipfsVars, nodeVars, decrypted, stagings>>

NextCrypto == DecryptCapsuleFragments

SpecCrypto == InitCrypto /\ [][NextCrypto]_vars

\* ------------------------------------------------------ counted stagings
\* add_ingestion_staging calls counted so far, over all owners
TotalStagings ==
  LET RECURSIVE Sum(_)
      Sum(S) == IF S = {} THEN 0
                ELSE LET o == CHOOSE o \in S : TRUE
                     IN stagings[o] + Sum(S \ {o})
  IN Sum(Owners)

\* add_ingestion_staging, the call counted for the owner
CountedStaging ==
  \E owner \in Owners, public_key \in PublicKeys :
    /\ TotalStagings < MaxStagings
    /\ SetLedger(add_ingestion_staging(Ledger, owner, public_key))
    /\ last' = Call("add_ingestion_staging", owner, public_key,
                    IngestionStaging[owner], Outcome(None, "Ok", <<>>))
    /\ stagings' = [stagings EXCEPT ![owner] = @ + 1]
    /\ UNCHANGED <<enqueued, ipfsVars, nodeVars, cfrags, decrypted>>

\* the ledger with every staging counted
NextStaging ==
  \/ CreateRequest
  \/ CountedStaging
  \/ SubmitIngestionCompleted
  \/ CreateAssetClass

SpecStaging == Init /\ [][NextStaging]_vars

\* ------------------------------------------- the end of the asset id range
\* the last id of the range of T::AssetId as u32
LastAssetId == AssetIdModulus - 1

\* the genesis of a chain whose GenesisConfig sets initial_asset_id to the
\* last id of the range
InitOverflow ==
  /\ IngestionCommands = [g \in Gateways |-> <<>>]
  /\ IngestionStaging = [o \in Owners |-> None]
  /\ Metadata = [i \in {} |-> None]
  /\ Assets = [i \in {} |-> None]
  /\ NextAssetId = LastAssetId
  /\ enqueued = [g \in Gateways |-> [c \in Cmds |-> 0]]
  /\ last = Call("genesis", None, None, None, Outcome(None, "Ok", <<>>))
  /\ InitNode({TRUE})
  /\ cfrags = NoCfrags
  /\ decrypted = NoDecrypted
  /\ stagings = NoStagings

\* submit_ingestion_completed on that chain, until MaxAssetIds ids are taken
SubmitIngestionCompletedAtEnd ==
  \E who \in Gateways, cmd \in Cmds, env \in AssetEnvs :
    /\ (NextAssetId - LastAssetId) % AssetIdModulus < MaxAssetIds
    /\ LET r == submit_ingestion_completed(Ledger, who, cmd, env)
       IN /\ SetLedger(r.st)
          /\ last' = Call("submit_ingestion_completed", who, cmd,
                          IngestionStaging[cmd.owner], r)
    /\ UNCHANGED <<enqueued, ipfsVars, nodeVars, callVars>>

NextOverflow ==
  \/ CreateRequest
  \/ AddIngestionStaging
  \/ SubmitIngestionCompletedAtEnd

SpecOverflow == InitOverflow /\ [][NextOverflow]_vars

\* ------------------------------------------------- submit_ipfs_identity
\* the multiaddresses an account may submit with a public key
OpaqueMultiaddrs == {"/ip4/5.6.7.8/tcp/4001", "/ip4/9.9.9.9/tcp/4001"}
AddressLists == SeqUpTo(OpaqueMultiaddrs, MaxMultiaddresses)

\* submit_ipfs_identity as a dispatchable: any account signs it, with any
\* public key and any multiaddresses
SubmitIpfsIdentity ==
  \E who \in Gateways, public_key \in DaemonPubkeys, multiaddresses \in AddressLists :
    /\ LET r == submit_ipfs_identity(IpfsStore, who, public_key, multiaddresses)
       IN /\ SetIpfsStore(r.st)
          /\ last' = Call("submit_ipfs_identity", who,
                          [public_key |-> public_key, multiaddresses |-> multiaddresses],
                          None, r)
    /\ UNCHANGED <<IngestionCommands, IngestionStaging, Metadata, NextAssetId, Assets,
                   enqueued, nodeVars, callVars>>

NextIdentity == SubmitIpfsIdentity

SpecIdentity == Init /\ [][NextIdentity]_vars

\* ------------------------------------------- the node among other gateways
\* an owner asks another gateway than the node's account to ingest its
\* dataset, the vested transfer being accepted
RequestIngestionElsewhere ==
  \E who \in Owners, gateway \in Gateways \ {LocalAccount},
     multiaddress \in Multiaddresses, size \in Sizes, balance \in Balances :
    /\ BeforeIdentity
    /\ TotalEnqueued < MaxEnqueued
    /\ LET cid == CidOf(who)
           r == create_request(Ledger, who, gateway, cid, multiaddress, size,
                               balance, TransferEnvs[1])
           cmd == IngestionCommand(who, cid, multiaddress, size, balance)
       IN /\ SetLedger(r.st)
          /\ enqueued' = [enqueued EXCEPT ![lookup(gateway)][cmd] = @ + 1]
          /\ last' = Call("create_request", lookup(gateway), cmd,
                          IngestionStaging[who], r)
    /\ UNCHANGED <<ipfsVars, nodeVars, callVars>>

\* another gateway submits the identity of the node's daemon before the node
\* does
SubmitIdentityElsewhere ==
  \E who \in Gateways \ {LocalAccount} :
    /\ BeforeIdentity
    /\ LET r == submit_ipfs_identity(IpfsStore, who, DaemonPubkey, DaemonAddresses)
       IN /\ SetIpfsStore(r.st)
          /\ last' = Call("submit_ipfs_identity", who,
                          [public_key |-> DaemonPubkey,
                           multiaddresses |-> DaemonAddresses], None, r)
    /\ UNCHANGED <<IngestionCommands, IngestionStaging, Metadata, NextAssetId, Assets,
                   enqueued, nodeVars, callVars>>

NextBound ==
  \/ Tick
  \/ VerifyIdentity(DaemonAnswers)
  \/ FetchIdentity(DaemonAnswers)
  \/ UpdateConfigs(ConfigEnvs)
  \/ HandleIngestionCommand(FetchEnvs)
  \/ HandleIngestionQueueReturns
  \/ OffchainWorkerEnds
  \/ ApplyIpfsIdentity
  \/ ApplyConfigComplete
  \/ ApplyIngestionCompleted
  \/ RequestIngestion(FALSE)
  \/ RequestIngestionElsewhere
  \/ SubmitIdentityElsewhere
  \/ StageKey

\* the ledger, the other gateways and one validator's offchain worker
SpecBound == Init /\ [][NextBound]_vars

\* ---------------------------------------------------------------- decrypt
\* the ledger and the node at rest, and one call of decrypt: a payload
\* encrypted with 5 shares and threshold 3, the fragments that were
\* re-encrypted for the caller and verified, the caller's signature and key
InitDecrypt ==
  /\ InitLedger
  /\ InitNode({TRUE})
  /\ cfrags = NoCfrags
  /\ stagings = NoStagings
  /\ \E plaintext \in Plaintexts, verified_fragments \in SUBSET (1..Shares),
        signature \in Signatures, secret_key \in BoxSecretKeys :
       decrypted = [plaintext |-> plaintext,
                    ciphertext |-> encrypt(plaintext, Shares, Threshold).ciphertext,
                    verified_fragments |-> verified_fragments,
                    signature |-> signature, secret_key |-> secret_key,
                    result |-> NoResult]

Decrypt ==
  /\ decrypted.result = NoResult
  /\ decrypted' = [decrypted EXCEPT
                     !.result = decrypt(decrypted.signature, LocalAccount, "message",
                                        decrypted.ciphertext, InitialAssetId,
                                        decrypted.secret_key)]
  /\ UNCHANGED <<ledgerVars, ipfsVars, nodeVars, cfrags, stagings>>

NextDecrypt == Decrypt

SpecDecrypt == InitDecrypt /\ [][NextDecrypt]_vars

\* ------------------------------------------ the claims on the offchain worker
\* the account the chain state of the invocation's block binds to the daemon
\* of the node, and that account's queue in that state
BoundAccount == ocw.view.bridge[DaemonPubkey]
PendingCommands == IF BoundAccount = None THEN <<>> ELSE ocw.view.cmds[BoundAccount]

\* the invocation has been through handle_ingestion_queue for every command
\* that was pending in its block
ProcessedPending ==
  /\ Len(ocw.attempts) = Len(PendingCommands)
  /\ \A i \in 1..Len(PendingCommands) : ocw.attempts[i].cmd = PendingCommands[i]

\* C14 as stated: under SpecLive, whose owners make their requests with a key
\* staged and whose worker steps and transactions are fair, a command that is in
\* the node's queue is eventually not in it.
C14_EventuallyConsumed ==
  \A c \in Cmds : Queued(LocalAccount, c) ~> ~Queued(LocalAccount, c)

\* C15 as stated: an invocation of a validator whose daemon identity is
\* registered, and in which no call to the daemon failed, returns having
\* processed every pending command, whatever the block number.
C15_EveryTick ==
  (/\ ocw.pc = "returned"
   /\ is_validator
   /\ BoundAccount # None
   /\ ocw.errors = {})
  => ProcessedPending

\* C16 as stated: an invocation in which the daemon could not be reached in
\* ipfs_verify_identity or in the identity fetch that follows it has returned
\* without a panic, having submitted no transaction, synchronised no
\* configuration and processed no command.
C16_DaemonUnreachable ==
  ocw.errors \cap {"ipfs_verify_identity", "fetch_identity_json"} # {}
  => /\ ocw.pc = "returned"
     /\ ocw.sent = <<>>
     /\ ocw.account = None
     /\ ocw.attempts = <<>>

\* C17: per-item isolation.  Inside the loop of handle_ingestion_queue the
\* commands gone through are the first idx - 1 of the queue snapshot, whatever
\* the daemon answered for them; the loop never panics; and when the
\* invocation has returned from the loop every command of the snapshot has
\* been gone through, in a snapshot that is the bound account's queue.
C17_Isolation ==
  /\ ocw.pc = "handle_ingestion_queue"
       => /\ ocw.idx <= Len(ocw.queued_commands) + 1
          /\ Len(ocw.attempts) = ocw.idx - 1
          /\ \A i \in 1..Len(ocw.attempts) : ocw.attempts[i].cmd = ocw.queued_commands[i]
  /\ ocw.pc = "panicked" => ocw.attempts = <<>>
  /\ (ocw.pc = "returned" /\ ocw.account # None)
       => /\ ocw.queued_commands = PendingCommands
          /\ ProcessedPending

\* C17 witness: the connect of the first command failed and the second
\* command has been gone through
C17_Witness ==
  /\ ocw.pc = "returned"
  /\ Len(ocw.attempts) = 2
  /\ ~ocw.attempts[1].connectOk
  /\ ocw.attempts[2].cmd # ocw.attempts[1].cmd

\* C18 as stated: no completion report is submitted for a command whose
\* connect or get failed.
C18_FailureSkips ==
  \A i \in 1..Len(ocw.attempts) :
    ~(ocw.attempts[i].connectOk /\ ocw.attempts[i].getOk) => ~ocw.attempts[i].submitted

IsReportTx(tx) == tx.call = "submit_ingestion_completed"

\* the commands of the completion reports in a sequence of transactions
ReportedCommands(txs) ==
  LET reports == SelectSeq(txs, IsReportTx)
  IN [i \in 1..Len(reports) |-> reports[i].arg]

\* p lists entries of q in the order q has them
InOrderOf(p, q) ==
  \E f \in [1..Len(p) -> 1..Len(q)] :
    /\ \A i, j \in 1..Len(p) : i < j => f[i] < f[j]
    /\ \A i \in 1..Len(p) : p[i] = q[f[i]]

\* C19: queue order.  While an invocation runs, the completion reports it has
\* submitted are for commands of its queue snapshot, in the order the snapshot
\* has them, they are those of the attempts the pool accepted, and the pool
\* holds them in that order.
C19_QueueOrder ==
  ocw.pc # "idle"
  => /\ InOrderOf(ReportedCommands(ocw.sent), ocw.queued_commands)
     /\ ReportedCommands(ocw.sent) =
          LET accepted == SelectSeq(ocw.attempts, LAMBDA a : a.submitted)
          IN [i \in 1..Len(accepted) |-> accepted[i].cmd]
     /\ ReportedCommands(txpool) = ReportedCommands(ocw.sent)

\* C19 witness: reports for two different commands were submitted
C19_Witness ==
  /\ ocw.pc = "returned"
  /\ Len(ReportedCommands(ocw.sent)) = 2
  /\ ReportedCommands(ocw.sent)[1] # ReportedCommands(ocw.sent)[2]
  /\ ReportedCommands(ocw.sent)[1] = ocw.queued_commands[1]

\* ------------------------------------ the claims on the capsule fragments
\* the tag of the fragment does not verify under the secret key (the
\* ciphertext was tampered with, or it was sealed for another key), or what it
\* holds is not the serialisation of a fragment
Rejectable(frag, secret_key) ==
  \/ ~frag.ciphertext.intact
  \/ frag.ciphertext.recipient # secret_key
  \/ frag.ciphertext.plaintext \notin CfragBytes

\* C20 as stated: a call of decrypt_capsule_fragments with such a fragment
\* among its arguments ends with a decryption error returned to the caller: it
\* returns no fragments and does not panic.
C20_TamperRejected ==
  (/\ cfrags.result.kind # "None"
   /\ \E i \in 1..Len(cfrags.encrypted_cfrags) :
        Rejectable(cfrags.encrypted_cfrags[i], cfrags.secret_key))
  => cfrags.result.kind = "Err"

\* ------------------------------------------------------ the claims on decrypt
\* decrypt has returned
Decrypted == decrypted.result.kind # "None"

\* decrypt could be performed: the signature verifies and at least Threshold
\* verified fragments are at hand
Performable ==
  /\ decrypted.signature = "valid"
  /\ Cardinality(decrypted.verified_fragments) >= Threshold

\* C21: for a plaintext P encrypted with shares = 5 and threshold = 3, decrypt
\* with any 3 of the 5 fragments returns exactly P, and decrypt with only 2
\* verified fragments fails.
C21_ThresholdRecombination ==
  (Decrypted /\ decrypted.signature = "valid") =>
    /\ Cardinality(decrypted.verified_fragments) = Threshold =>
         decrypted.result = [kind |-> "Some", value |-> decrypted.plaintext]
    /\ Cardinality(decrypted.verified_fragments) = Threshold - 1 =>
         decrypted.result.kind # "Some"

\* C22: decrypt returns either the recovered plaintext or a failure; it never
\* returns a successful empty byte string for the non-empty ciphertext of a
\* non-empty plaintext, or when decryption could not be performed.
C22_NeverEmptyOutput ==
  (Decrypted /\ decrypted.result.kind = "Some") =>
    /\ Performable
    /\ decrypted.result.value = decrypted.plaintext

\* ------------------------------------------------- the claims on the ledger
\* the sequence q without the earliest entry equal to cmd, the other entries
\* in the order they had
WithoutFirst(q, cmd) ==
  LET first == CHOOSE i \in 1..Len(q) :
                 q[i] = cmd /\ \A j \in 1..(i - 1) : q[j] # cmd
  IN SubSeq(q, 1, first - 1) \o SubSeq(q, first + 1, Len(q))

\* what C23 says a finalize has done to the queues: the signer's queue has
\* lost the earliest occurrence of the command and nothing else, and the other
\* gateways' queues are as they were
C23_Effect ==
  /\ Queued(last'.who, last'.arg)
  /\ IngestionCommands' =
       [IngestionCommands EXCEPT ![last'.who] = WithoutFirst(@, last'.arg)]

C24_OverwritePolicy ==
  [][/\ IsSecondStaging
          => IngestionStaging' = [IngestionStaging EXCEPT ![last'.who] = last'.arg]
     /\ \A o \in Owners :
          IngestionStaging'[o] # IngestionStaging[o]
            => \/ last'.op = "add_ingestion_staging" /\ last'.who = o
               \/ IsFinalize /\ last'.arg.owner = o /\ Metadata' # Metadata
     /\ (IsAcceptedReport /\ IngestionStaging[last'.arg.owner] # None)
          => /\ DOMAIN Metadata' = DOMAIN Metadata \cup {NextAssetId}
             /\ NextAssetId \notin DOMAIN Metadata
             /\ Metadata'[NextAssetId] =
                  [cid |-> last'.arg.cid,
                   public_key |-> IngestionStaging[last'.arg.owner]]
    ]_vars

\* C24 witness: an accepted report registered an asset under the key k2, the
\* key staged for its owner when the report was applied
C24_Witness ==
  /\ last.op = "submit_ingestion_completed"
  /\ last.result = "Ok"
  /\ last.staged = "k2"
  /\ \E id \in DOMAIN Metadata :
       Metadata[id] = [cid |-> last.arg.cid, public_key |-> "k2"]

\* -------------------------------- further claims on the offchain worker
\* C25: validator precondition.  The offchain worker of a node for which
\* is_validator is false performs no identity verification, no config sync
\* and no ingestion processing and submits no transaction, on any tick: its
\* invocations return at once, no call to the daemon is made or fails, no
\* command is attempted, the pool stays empty and no transaction of the node
\* reaches the storage of pallet ipfs.
C25_ValidatorPrecondition ==
  ~is_validator =>
    /\ ocw.pc \in {"idle", "returned"}
    /\ ocw.account = None
    /\ ocw.attempts = <<>>
    /\ ocw.sent = <<>>
    /\ ocw.errors = {}
    /\ txpool = <<>>
    /\ \A k \in DaemonPubkeys : SubstrateIpfsBridge[k] = None
    /\ \A a \in Gateways : Stats[a] = 0

\* C25 witness: the invocation of a node that is no validator has returned, on
\* a block on which a validator would run, with a command queued for the node
C25_Witness ==
  /\ ~is_validator
  /\ ocw.pc = "returned"
  /\ ocw.block % NodeConfigBlockDuration = 0
  /\ ocw.view.cmds[LocalAccount] # <<>>

\* C26 as stated: an invocation in which pushing the storage quota to the
\* daemon (config_update) or reading back the statistics (repo_stat) failed
\* does not panic, and has gone through every pending command when it returns.
C26_ConfigSyncFailureTolerated ==
  ocw.errors \cap {"config_update", "repo_stat"} # {}
  => /\ ocw.pc # "panicked"
     /\ ocw.pc = "returned" => ProcessedPending

\* the step applies the submit_config_complete at the head of the pool
IsConfigComplete ==
  /\ txpool # <<>>
  /\ Head(txpool).call = "submit_config_complete"
  /\ txpool' = Tail(txpool)

\* C27 as stated: the submit_config_complete the worker has submitted stores
\* the storage the daemon actually uses (RepoSize of the statistics read back)
\* in Stats for the signer, and changes no other entry of Stats.
C27_ReportsActualUsage ==
  [][IsConfigComplete
       => Stats' = [Stats EXCEPT ![Head(txpool).signer] = RepoStat.RepoSize]]_vars

\* ---------------------------------------- further claims on the ledger
\* the step is a completion report signed by an account that does not hold
\* the command in its queue, while another gateway does
IsForeignReport ==
  /\ IsReport
  /\ ~Queued(last'.who, last'.arg)
  /\ \E b \in Gateways \ {last'.who} : Queued(b, last'.arg)

\* C28: only the addressed custodian can complete a command.  A completion
\* report signed by A for a command queued only under another gateway B is
\* rejected with NotAuthorized, registers no asset, allocates no id, and
\* leaves B's queue (as every queue) and the owner's staged key (as every
\* staged key) unchanged.
C28_OnlyAddressedCustodian ==
  [][IsForeignReport
       => /\ last'.result = "NotAuthorized"
          /\ last'.events = <<>>
          /\ Assets' = Assets
          /\ Metadata' = Metadata
          /\ NextAssetId' = NextAssetId
          /\ IngestionCommands' = IngestionCommands
          /\ IngestionStaging' = IngestionStaging]_vars

\* C28 witness: a report signed by an account without the command was
\* rejected, while the command is in another gateway's queue and its owner
\* has a staged key
C28_Witness ==
  /\ last.op = "submit_ingestion_completed"
  /\ last.result = "NotAuthorized"
  /\ ~Queued(last.who, last.arg)
  /\ \E b \in Gateways \ {last.who} : Queued(b, last.arg)
  /\ IngestionStaging[last.arg.owner] # None

\* the call of the step deposited the event IngestionComplete
EmitsIngestionComplete ==
  \E i \in 1..Len(last'.events) : last'.events[i] = "IngestionComplete"

\* C30 as stated: a call that deposits IngestionComplete has written exactly
\* one new Metadata record and removed one command, its own, from the
\* signer's queue.
C30_EventMeansRegistered ==
  [][EmitsIngestionComplete
       => /\ Cardinality(DOMAIN Metadata' \ DOMAIN Metadata) = 1
          /\ Len(IngestionCommands'[last'.who]) = Len(IngestionCommands[last'.who]) - 1
          /\ count(IngestionCommands'[last'.who], last'.arg)
               = count(IngestionCommands[last'.who], last'.arg) - 1]_vars

\* the Metadata records created for commands owned by o, after the step
RecordsAfter(o) == {id \in DOMAIN Metadata' : Metadata'[id].cid = CidOf(o)}

\* C29: each registered asset consumes one staging.  After every step the
\* Metadata records created for the commands of an owner are at most as many
\* as the add_ingestion_staging calls made for that owner so far; and a
\* completion report accepted while the owner has no staged key registers no
\* asset, advances no asset id and removes nothing from the queue.
C29_OneStagingEach ==
  [][/\ \A o \in Owners : Cardinality(RecordsAfter(o)) <= stagings'[o]
     /\ (IsAcceptedReport /\ IngestionStaging[last'.arg.owner] = None)
          => /\ Metadata' = Metadata
             /\ Assets' = Assets
             /\ NextAssetId' = NextAssetId
             /\ IngestionCommands' = IngestionCommands]_vars

\* C29 witness: a report was accepted while its owner had no staged key, the
\* one staging made for that owner having been consumed by an asset
\* registered before, and the command is still queued
C29_Witness ==
  /\ last.op = "submit_ingestion_completed"
  /\ last.result = "Ok"
  /\ last.staged = None
  /\ stagings[last.arg.owner] = 1
  /\ Cardinality({id \in DOMAIN Metadata : Metadata[id].cid = last.arg.cid}) = 1
  /\ Queued(last.who, last.arg)

\* ---------------------------------------------------- the claims on asset ids
\* the call of the step reached get_and_increment_asset_id: a finalize for a
\* command of the signer's queue whose owner has a staged key
TakesAssetId ==
  /\ IsFinalize
  /\ Queued(last'.who, last'.arg)
  /\ IngestionStaging[last'.arg.owner] # None

\* C31 as stated: asset ids are unique and monotonic, the end of the u32 range
\* included.  A call that reaches get_and_increment_asset_id does not panic
\* and advances NextAssetId by exactly 1, the id of a new Metadata record is
\* the NextAssetId held before; after every step NextAssetId is greater than
\* every id that has a Metadata record; and no record or asset is ever
\* written over.
C31_UniqueMonotonicIds ==
  [][/\ TakesAssetId
          => /\ last'.result # "Panic"
             /\ NextAssetId' = NextAssetId + 1
     /\ DOMAIN Metadata' \ DOMAIN Metadata \subseteq {NextAssetId}
     /\ \A id \in DOMAIN Metadata' : id < NextAssetId'
     /\ \A id \in DOMAIN Metadata :
          id \in DOMAIN Metadata' /\ Metadata'[id] = Metadata[id]
     /\ \A id \in DOMAIN Assets :
          id \in DOMAIN Assets' /\ Assets'[id] = Assets[id]
    ]_vars

\* ------------------------------------------- the claims on the identities
\* the step is a submit_ipfs_identity call (its signer is last'.who, its
\* arguments last'.arg)
IsIdentity == last'.op = "submit_ipfs_identity"

\* C32: identity binding is stable.  A submit_ipfs_identity call with a public
\* key that is bound to another account fails with InvalidPublicKey and leaves
\* SubstrateIpfsBridge and BootstrapNodes as they were; a public key that is
\* bound stays bound to the same account in every step; and a public key
\* becomes bound only in a submit_ipfs_identity call with that key, to the
\* signer of the call: the account bound to a key is the first that submitted
\* it.
C32_StableBinding ==
  [][/\ (/\ IsIdentity
         /\ SubstrateIpfsBridge[last'.arg.public_key] \notin {None, last'.who})
          => /\ last'.result = "InvalidPublicKey"
             /\ SubstrateIpfsBridge' = SubstrateIpfsBridge
             /\ BootstrapNodes' = BootstrapNodes
     /\ \A k \in DaemonPubkeys :
          /\ SubstrateIpfsBridge[k] # None
               => SubstrateIpfsBridge'[k] = SubstrateIpfsBridge[k]
          /\ (SubstrateIpfsBridge[k] = None /\ SubstrateIpfsBridge'[k] # None)
               => /\ IsIdentity
                  /\ last'.result = "Ok"
                  /\ last'.arg.public_key = k
                  /\ SubstrateIpfsBridge'[k] = last'.who
    ]_vars

\* C32 witness: a call by another account with a bound public key, and with
\* other multiaddresses than the bound ones, has failed
C32_Witness ==
  /\ last.op = "submit_ipfs_identity"
  /\ last.result = "InvalidPublicKey"
  /\ SubstrateIpfsBridge[last.arg.public_key] \notin {None, last.who}
  /\ BootstrapNodes[last.arg.public_key] # last.arg.multiaddresses

\* ------------------------------------------ the claims on the bound account
\* C33: a worker processes only the queue of the account the ledger binds to
\* its daemon public key.  In an invocation whose block has no entry for the
\* daemon's public key in SubstrateIpfsBridge the worker submits no
\* submit_config_complete and no completion report and goes through no
\* command; in the others the account it works for is the bound one, and
\* every command it goes through and every completion report it submits is
\* for a command of the bound account's queue in the state of that block.
C33_OnlyBoundQueue ==
  /\ BoundAccount = None
       => /\ \A i \in 1..Len(ocw.sent) : ocw.sent[i].call = "submit_ipfs_identity"
          /\ ocw.attempts = <<>>
          /\ ocw.account = None
  /\ BoundAccount # None
       => /\ ocw.account \in {None, BoundAccount}
          /\ \A i \in 1..Len(ocw.attempts) :
               count(ocw.view.cmds[BoundAccount], ocw.attempts[i].cmd) > 0
          /\ \A i \in 1..Len(ocw.sent) :
               IsReportTx(ocw.sent[i])
                 => count(ocw.view.cmds[BoundAccount], ocw.sent[i].arg) > 0

\* C33 witness: the worker has submitted a completion report for a command of
\* the bound account's queue, the bound account being another gateway than
\* the node's own, whose queue holds a command the bound account's does not
C33_Witness ==
  /\ BoundAccount \notin {None, LocalAccount}
  /\ \E i \in 1..Len(ocw.sent) : IsReportTx(ocw.sent[i])
  /\ \E c \in Cmds :
       /\ count(ocw.view.cmds[LocalAccount], c) > 0
       /\ count(ocw.view.cmds[BoundAccount], c) = 0
====
